---- MODULE Spec2Model ----
(***************************************************************************)
(* Model of the BH1750 ambient-light sensor driver (src/bh1750.py).        *)
(*                                                                         *)
(* One BH1750 instance and the I2C bus it talks to.  Every method of the   *)
(* class is an operator on a "frame" m: the instance's attributes          *)
(* (m.self), the bus as the call finds it (m.budget, m.scanned, m.data),   *)
(* the bus traffic and delays of the call so far (m.log), the exception    *)
(* that is propagating, if any (m.exc), and the value returned (m.ret).    *)
(* An attribute that was never assigned is absent from DOMAIN m.self, and  *)
(* reading it raises AttributeError, as in Python.                         *)
(*                                                                         *)
(* Python creates the instance before __init__ runs, so the instance       *)
(* outlives an __init__ that raises.  The model lets the methods be called *)
(* on it once __init__ has reached its last statement (pc "constructed"    *)
(* when __init__ returned, "aborted" when that last statement raised), so  *)
(* that every method is exercised on every instance the code can produce.  *)
(*                                                                         *)
(* The two transfer buffers are scratch space, rewritten before every use: *)
(* the byte stored in _write_buf is the byte of the logged write (a value  *)
(* that is no byte raises ValueError), the bytes received in _read_buf are *)
(* the call's input m.data.                                                *)
(*                                                                         *)
(* Floating-point results are modelled exactly: lux as a fraction          *)
(* <<numerator, denominator>>, the delay int(base_ms * (mtreg / 69)) as    *)
(* the integer quotient (base_ms * mtreg) \div 69.                         *)
(***************************************************************************)
EXTENDS Integers, Sequences, FiniteSets, TLC

VARIABLES
    pc,             \* "start" | "failed" | "aborted" | "constructed"
    self,           \* the instance's attributes: name -> value
    log,            \* bus operations and delays of the last call, in order
    call,           \* the last call: name, arguments, attributes before, outcome
    expected_mode   \* ghost: the mode the caller last asked for (read by no action)

vars == <<pc, self, log, call, expected_mode>>

-----------------------------------------------------------------------------
(* Constants of src/bh1750.py *)

ADDR_LOW == 35
ADDR_HIGH == 92

POWER_DOWN == 0
POWER_ON == 1
RESET == 7

COMMAND_DELAY_MS == 5

MTREG_MIN == 31
MTREG_MAX == 254
MTREG_DEFAULT == 69

CONTINUOUS_HIGH_RESOLUTION == 16
CONTINUOUS_HIGH_RESOLUTION_2 == 17
CONTINUOUS_LOW_RESOLUTION == 19
ONE_TIME_HIGH_RESOLUTION == 32
ONE_TIME_HIGH_RESOLUTION_2 == 33
ONE_TIME_LOW_RESOLUTION == 35

Modes ==
    {CONTINUOUS_HIGH_RESOLUTION, CONTINUOUS_HIGH_RESOLUTION_2,
     CONTINUOUS_LOW_RESOLUTION, ONE_TIME_HIGH_RESOLUTION,
     ONE_TIME_HIGH_RESOLUTION_2, ONE_TIME_LOW_RESOLUTION}

-----------------------------------------------------------------------------
(* Bounds and the inputs the calls are tried with *)

\* Bus operations (scan, write, read) that succeed before the bus fails, at
\* most, during __init__: with autodetection it issues six (one scan, five
\* writes), so that a budget of MaxBusOps is a bus that works throughout.
MaxBusOps == 6

\* The same for every other call, none of which issues more than two.
MaxCallOps == 2

\* addr argument of __init__: <<>> is None, <<a>> an explicit address.
AddrArgs == {<<>>, <<ADDR_LOW>>, <<ADDR_HIGH>>}

\* What i2c.scan() reports; 64 is some other device on the bus.
ScanResults == SUBSET {ADDR_LOW, ADDR_HIGH, 64}

\* mode arguments: the six modes, a byte that is no mode, an int that is no byte.
ModeArgs == Modes \cup {66, 300}

\* mtreg arguments: below, at and above both limits, and values in between.
MtregArgs == {-5, 10, 30, 31, 69, 120, 138, 254, 255, 300}

\* The two bytes the device answers a read with.
DataArgs == {<<0, 0>>, <<1, 0>>, <<213, 84>>, <<255, 255>>}

-----------------------------------------------------------------------------
(* Python's int operators on naturals *)

RECURSIVE BitAnd(_, _)
BitAnd(a, b) ==
    IF a = 0 \/ b = 0 THEN 0
    ELSE 2 * BitAnd(a \div 2, b \div 2) + (IF a % 2 = 1 /\ b % 2 = 1 THEN 1 ELSE 0)

RECURSIVE BitOr(_, _)
BitOr(a, b) ==
    IF a = 0 THEN b
    ELSE IF b = 0 THEN a
    ELSE 2 * BitOr(a \div 2, b \div 2) + (IF a % 2 = 1 \/ b % 2 = 1 THEN 1 ELSE 0)

RECURSIVE ShiftRight(_, _)
ShiftRight(a, n) == IF n = 0 THEN a ELSE ShiftRight(a \div 2, n - 1)

RECURSIVE ShiftLeft(_, _)
ShiftLeft(a, n) == IF n = 0 THEN a ELSE ShiftLeft(2 * a, n - 1)

Min(a, b) == IF a < b THEN a ELSE b
Max(a, b) == IF a > b THEN a ELSE b

-----------------------------------------------------------------------------
(* Attributes, exceptions, frames *)

HasAttr(o, a) == a \in DOMAIN o
SetAttr(o, a, v) == [x \in DOMAIN o \cup {a} |-> IF x = a THEN v ELSE o[x]]

NoExc == "none"
AttributeError == "AttributeError"
ValueError == "ValueError"
\* OSError("I2C scan failed: BH1750 not found on I2C bus"): no device found
ErrNotFound == "OSError: I2C scan failed: BH1750 not found on I2C bus"
\* OSError("I2C scan failed: <cause>"): the scan itself failed
ErrScan == "OSError: I2C scan failed: bus error"
ErrWrite == "OSError: BH1750 I2C write failed: bus error"
ErrRead == "OSError: BH1750 I2C read failed: bus error"

Raise(m, e) == [m EXCEPT !.exc = e]
Running(m) == m.exc = NoExc
\* A statement runs only while Running: an exception ends the call.

\* Entries of the log.  val is the byte written, the number of bytes read, or
\* the milliseconds slept; addr is 0 for a scan and a delay.
WriteEv(a, b, ok) == [op |-> "write", addr |-> a, val |-> b, ok |-> ok]
ReadEv(a, ok) == [op |-> "read", addr |-> a, val |-> 2, ok |-> ok]
ScanEv(ok) == [op |-> "scan", addr |-> 0, val |-> 0, ok |-> ok]
SleepEv(ms) == [op |-> "sleep", addr |-> 0, val |-> ms, ok |-> TRUE]

-----------------------------------------------------------------------------
(* The methods of class BH1750 *)

sleep_ms(m, ms) == [m EXCEPT !.log = Append(@, SleepEv(ms))]

\* autodetect_addr falling back to the low address when no candidate answers
autodetect_addr_fallback(m) ==
    IF m.budget = 0
    THEN Raise([m EXCEPT !.log = Append(@, ScanEv(FALSE))], ErrScan)
    ELSE LET m1 == [m EXCEPT !.budget = @ - 1, !.log = Append(@, ScanEv(TRUE))]
         IN  IF ADDR_HIGH \in m1.scanned /\ ADDR_LOW \notin m1.scanned
             THEN [m1 EXCEPT !.ret = <<ADDR_HIGH>>]
             ELSE [m1 EXCEPT !.ret = <<ADDR_LOW>>]

\* autodetect_addr testing the high address first
autodetect_addr_high_first(m) ==
    IF m.budget = 0
    THEN Raise([m EXCEPT !.log = Append(@, ScanEv(FALSE))], ErrScan)
    ELSE LET m1 == [m EXCEPT !.budget = @ - 1, !.log = Append(@, ScanEv(TRUE))]
         IN  IF ADDR_HIGH \in m1.scanned THEN [m1 EXCEPT !.ret = <<ADDR_HIGH>>]
             ELSE IF ADDR_LOW \in m1.scanned THEN [m1 EXCEPT !.ret = <<ADDR_LOW>>]
             ELSE Raise(m1, ErrNotFound)

autodetect_addr(m) ==
    IF m.budget = 0
    THEN Raise([m EXCEPT !.log = Append(@, ScanEv(FALSE))], ErrScan)
    ELSE LET m1 == [m EXCEPT !.budget = @ - 1, !.log = Append(@, ScanEv(TRUE))]
         IN  IF ADDR_LOW \in m1.scanned THEN [m1 EXCEPT !.ret = <<ADDR_LOW>>]
             ELSE IF ADDR_HIGH \in m1.scanned THEN [m1 EXCEPT !.ret = <<ADDR_HIGH>>]
             ELSE Raise(m1, ErrNotFound)

\* write_cmd addressing the low address whatever address was chosen
write_cmd_low_addr(m, cmd) ==
    IF cmd \notin 0..255 THEN Raise(m, ValueError)
    ELSE IF m.budget > 0
    THEN [m EXCEPT !.budget = @ - 1,
                   !.log = Append(@, WriteEv(ADDR_LOW, cmd, TRUE))]
    ELSE Raise([m EXCEPT !.log = Append(@, WriteEv(ADDR_LOW, cmd, FALSE))], ErrWrite)

write_cmd(m, cmd) ==
    IF cmd \notin 0..255 THEN Raise(m, ValueError)
    ELSE IF m.budget > 0
    THEN [m EXCEPT !.budget = @ - 1,
                   !.log = Append(@, WriteEv(m.self.addr, cmd, TRUE))]
    ELSE Raise([m EXCEPT !.log = Append(@, WriteEv(m.self.addr, cmd, FALSE))], ErrWrite)

power_on(m) ==
    LET m1 == write_cmd(m, POWER_ON)
    IN  IF Running(m1) THEN sleep_ms(m1, COMMAND_DELAY_MS) ELSE m1

\* power_down followed by the command delay, like power_on and reset
power_down_delayed(m) ==
    LET m1 == write_cmd(m, POWER_DOWN)
    IN  IF Running(m1) THEN sleep_ms(m1, COMMAND_DELAY_MS) ELSE m1

power_down(m) == write_cmd(m, POWER_DOWN)

reset(m) ==
    LET m1 == write_cmd(m, RESET)
    IN  IF Running(m1) THEN sleep_ms(m1, COMMAND_DELAY_MS) ELSE m1

\* Clamp without the upper limit
ClampNoMax(mtreg) == Max(MTREG_MIN, mtreg)

\* HighByte shifting by 4 instead of 5
HighByteShift4(v) == BitOr(64, ShiftRight(v, 4))

Clamp(mtreg) == Max(MTREG_MIN, Min(mtreg, MTREG_MAX))
HighByte(v) == BitOr(64, ShiftRight(v, 5))
LowByte(v) == BitOr(96, BitAnd(v, 31))

\* set_mtreg swallowing the failure of the high-byte write and going on
set_mtreg_keeps_going(m, mtreg) ==
    LET m1 == [m EXCEPT !.self = SetAttr(@, "mtreg", Clamp(mtreg))]
        m2 == write_cmd(m1, HighByte(m1.self.mtreg))
    IN  write_cmd([m2 EXCEPT !.exc = NoExc], LowByte(m1.self.mtreg))

set_mtreg(m, mtreg) ==
    LET m1 == [m EXCEPT !.self = SetAttr(@, "mtreg", Clamp(mtreg))]
        high_byte == HighByte(m1.self.mtreg)
        low_byte == LowByte(m1.self.mtreg)
        m2 == write_cmd(m1, high_byte)
    IN  IF Running(m2) THEN write_cmd(m2, low_byte) ELSE m2

set_mode(m, mode, force) ==
    IF ~HasAttr(m.self, "mode") THEN Raise(m, AttributeError)
    ELSE IF m.self.mode = mode /\ ~force THEN m
    ELSE write_cmd([m EXCEPT !.self = SetAttr(@, "mode", mode)], mode)

\* raw taking the first received byte as the least significant
raw_little_endian(m) ==
    IF m.budget > 0
    THEN [m EXCEPT !.budget = @ - 1,
                   !.log = Append(@, ReadEv(m.self.addr, TRUE)),
                   !.ret = <<BitOr(ShiftLeft(m.data[2], 8), m.data[1])>>]
    ELSE Raise([m EXCEPT !.log = Append(@, ReadEv(m.self.addr, FALSE))], ErrRead)

raw(m) ==
    IF m.budget > 0
    THEN [m EXCEPT !.budget = @ - 1,
                   !.log = Append(@, ReadEv(m.self.addr, TRUE)),
                   !.ret = <<BitOr(ShiftLeft(m.data[1], 8), m.data[2])>>]
    ELSE Raise([m EXCEPT !.log = Append(@, ReadEv(m.self.addr, FALSE))], ErrRead)

IsOneShot(mode) == BitAnd(mode, 240) = 32

BaseMs(mode) ==
    IF mode \in {CONTINUOUS_HIGH_RESOLUTION, CONTINUOUS_HIGH_RESOLUTION_2,
                 ONE_TIME_HIGH_RESOLUTION, ONE_TIME_HIGH_RESOLUTION_2}
    THEN 180 ELSE 24

WaitMs(mode, mtreg) == (BaseMs(mode) * mtreg) \div MTREG_DEFAULT

\* (raw_val / 1.2) * (69 / mtreg), halved in the H-resolution-2 modes, as the
\* fraction <<numerator, denominator>>: raw_val / 1.2 = 5 * raw_val / 6.
LuxValue(raw_val, mtreg, mode) ==
    LET num == 5 * raw_val * MTREG_DEFAULT
        den == 6 * mtreg
    IN  IF mode \in {CONTINUOUS_HIGH_RESOLUTION_2, ONE_TIME_HIGH_RESOLUTION_2}
        THEN <<num, 2 * den>> ELSE <<num, den>>

lux(m) ==
    IF ~HasAttr(m.self, "mode") THEN Raise(m, AttributeError)
    ELSE
    LET m1 == IF IsOneShot(m.self.mode) THEN set_mode(m, m.self.mode, TRUE) ELSE m
        m2 == sleep_ms(m1, WaitMs(m1.self.mode, m1.self.mtreg))
        m3 == raw(m2)
    IN  IF ~Running(m1) THEN m1
        ELSE IF ~Running(m3) THEN m3
        ELSE [m3 EXCEPT !.ret = LuxValue(m3.ret[1], m3.self.mtreg, m3.self.mode)]

\* __init__ up to and including set_mtreg (lines 59-69)
init_configure(m, addr, mtreg) ==
    LET found == autodetect_addr(m)
        m1 == IF addr # <<>> THEN [m EXCEPT !.self = SetAttr(@, "addr", addr[1])]
              ELSE IF Running(found)
                   THEN [found EXCEPT !.self = SetAttr(@, "addr", found.ret[1]),
                                      !.ret = <<>>]
                   ELSE found
        m2 == power_on(m1)
        m3 == reset(m2)
    IN  IF ~Running(m1) THEN m1
        ELSE IF ~Running(m2) THEN m2
        ELSE IF ~Running(m3) THEN m3
        ELSE set_mtreg(m3, mtreg)

init(m, addr, mode, mtreg) ==
    LET m1 == init_configure(m, addr, mtreg)
    IN  IF Running(m1) THEN set_mode(m1, mode, TRUE) ELSE m1

-----------------------------------------------------------------------------
(* The state machine: one instance, its methods called in any order *)

\* The frame a call starts in: the instance as it is, an empty log, and the
\* bus as it will behave during the call.
Frame(budget, scanned, data) ==
    [self |-> self, log |-> <<>>, budget |-> budget, scanned |-> scanned,
     data |-> data, exc |-> NoExc, ret |-> <<>>]

\* The call ends: the instance and the log are what the frame holds.
Return(name, args, m) ==
    /\ self' = m.self
    /\ log' = m.log
    /\ call' = [name |-> name, args |-> args, pre |-> self,
                exc |-> m.exc, ret |-> m.ret]

\* The instance exists and __init__ has run through set_mtreg: either it
\* returned, or the exception came out of its last statement.
Live == pc \in {"aborted", "constructed"}

Init ==
    /\ pc = "start"
    /\ self = <<>>
    /\ log = <<>>
    /\ call = [name |-> "none", args |-> <<>>, pre |-> <<>>, exc |-> NoExc, ret |-> <<>>]
    /\ expected_mode = 0

Construct ==
    /\ pc = "start"
    /\ \E addr \in AddrArgs, scanned \in ScanResults, mode \in ModeArgs,
          mtreg \in MtregArgs, budget \in 0..MaxBusOps :
          LET m0 == Frame(budget, scanned, <<0, 0>>)
              m == init(m0, addr, mode, mtreg)
          IN  /\ pc' = IF Running(m) THEN "constructed"
                       ELSE IF Running(init_configure(m0, addr, mtreg)) THEN "aborted"
                       ELSE "failed"
              /\ Return("init", [addr |-> addr, scanned |-> scanned, mode |-> mode,
                                 mtreg |-> mtreg, budget |-> budget], m)
              /\ expected_mode' = mode

SetMtreg ==
    /\ Live
    /\ \E mtreg \in MtregArgs, budget \in 0..MaxCallOps :
          Return("set_mtreg", [mtreg |-> mtreg, budget |-> budget],
                 set_mtreg(Frame(budget, {}, <<0, 0>>), mtreg))
    /\ UNCHANGED <<pc, expected_mode>>

SetMode ==
    /\ Live
    /\ \E mode \in ModeArgs, force \in BOOLEAN, budget \in 0..MaxCallOps :
          /\ Return("set_mode", [mode |-> mode, force |-> force, budget |-> budget],
                    set_mode(Frame(budget, {}, <<0, 0>>), mode, force))
          /\ expected_mode' = IF mode \in Modes /\ budget > 0 THEN mode
                              ELSE expected_mode
    /\ UNCHANGED pc

PowerOn ==
    /\ Live
    /\ \E budget \in 0..MaxCallOps :
          Return("power_on", [budget |-> budget], power_on(Frame(budget, {}, <<0, 0>>)))
    /\ UNCHANGED <<pc, expected_mode>>

PowerDown ==
    /\ Live
    /\ \E budget \in 0..MaxCallOps :
          Return("power_down", [budget |-> budget], power_down(Frame(budget, {}, <<0, 0>>)))
    /\ UNCHANGED <<pc, expected_mode>>

Reset ==
    /\ Live
    /\ \E budget \in 0..MaxCallOps :
          Return("reset", [budget |-> budget], reset(Frame(budget, {}, <<0, 0>>)))
    /\ UNCHANGED <<pc, expected_mode>>

Raw ==
    /\ Live
    /\ \E data \in DataArgs, budget \in 0..MaxCallOps :
          Return("raw", [data |-> data, budget |-> budget], raw(Frame(budget, {}, data)))
    /\ UNCHANGED <<pc, expected_mode>>

Lux ==
    /\ Live
    /\ \E data \in DataArgs, budget \in 0..MaxCallOps :
          Return("lux", [data |-> data, budget |-> budget], lux(Frame(budget, {}, data)))
    /\ UNCHANGED <<pc, expected_mode>>

Next ==
    \/ Construct
    \/ SetMtreg
    \/ SetMode
    \/ PowerOn
    \/ PowerDown
    \/ Reset
    \/ Raw
    \/ Lux

Spec == Init /\ [][Next]_vars

-----------------------------------------------------------------------------
(* What the claims speak of *)

\* The bytes the bus accepted during the last call, in order.
TxBytes(l) ==
    LET w == SelectSeq(l, LAMBDA e : e.op = "write" /\ e.ok)
    IN  [i \in 1..Len(w) |-> w[i].val]

\* Every write of the last call, accepted or not.
WriteAttempts(l) == SelectSeq(l, LAMBDA e : e.op = "write")

\* clamp(v, 31, 254) and the two sensitivity bytes, as the specification
\* states them.
ExpectedMtreg(v) == IF v < 31 THEN 31 ELSE IF v > 254 THEN 254 ELSE v
ExpectedHigh(c) == 64 + (c \div 32)
ExpectedLow(c) == 96 + (c % 32)

DefinedModes == {16, 17, 19, 32, 33, 35}
OneShotModes == {32, 33, 35}

\* C1: construction without an address, on a bus that reports 0x23 and
\* accepts every write, succeeds, stores 0x23 and transmits power-on, reset,
\* the high and the low sensitivity byte and then the mode byte.
C1_ConstructionSequence ==
    (/\ call.name = "init"
     /\ call.args.addr = <<>>
     /\ ADDR_LOW \in call.args.scanned
     /\ call.args.mode \in DefinedModes
     /\ call.args.budget >= 6)
    => LET c == ExpectedMtreg(call.args.mtreg)
       IN  /\ call.exc = NoExc
           /\ pc = "constructed"
           /\ HasAttr(self, "addr") /\ self.addr = 35
           /\ TxBytes(log) = <<1, 7, ExpectedHigh(c), ExpectedLow(c), call.args.mode>>

\* C2: on a working bus set_mtreg(v) stores clamp(v, 31, 254) and transmits
\* exactly the high byte and then the low byte of the clamped value, also
\* when the value is the one already stored.
C2_SetSensitivity ==
    (call.name = "set_mtreg" /\ call.args.budget >= 2)
    => LET v == call.args.mtreg
           c == ExpectedMtreg(v)
       IN  /\ call.exc = NoExc
           /\ self.mtreg = c
           /\ TxBytes(log) = <<ExpectedHigh(c), ExpectedLow(c)>>
           /\ Len(log) = 2
           /\ (v = 120 => TxBytes(log) = <<67, 120>>)
           /\ (v = 10 => self.mtreg = 31)
           /\ (v = 300 => self.mtreg = 254)

\* C2 witness: 120 is set while 120 is stored, and both bytes go out again.
C2_Witness ==
    /\ call.name = "set_mtreg"
    /\ call.args.mtreg = 120
    /\ call.pre.mtreg = 120
    /\ call.exc = NoExc
    /\ TxBytes(log) = <<67, 120>>

\* C3: set_mode(m, force) on a working bus transmits nothing when m is the
\* stored mode and force is false, and otherwise transmits exactly the byte m
\* and leaves m stored.
C3_SetModeTransmission ==
    (/\ Live
     /\ call.name = "set_mode"
     /\ call.args.mode \in DefinedModes
     /\ call.args.budget >= 1)
    => IF HasAttr(call.pre, "mode") /\ call.pre.mode = call.args.mode /\ ~call.args.force
       THEN log = <<>>
       ELSE /\ TxBytes(log) = <<call.args.mode>>
            /\ HasAttr(self, "mode") /\ self.mode = call.args.mode

\* C4: in a one-shot mode every lux call on a working bus writes the mode
\* byte, then waits, then reads.
C4_OneShotRetrigger ==
    (/\ Live
     /\ call.name = "lux"
     /\ expected_mode \in OneShotModes
     /\ call.args.budget >= 2)
    => /\ Len(log) = 3
       /\ log[1] = WriteEv(self.addr, expected_mode, TRUE)
       /\ log[2].op = "sleep"
       /\ log[3] = ReadEv(self.addr, TRUE)

\* C5: lux returns (r / 1.2) * (69 / m) for the raw reading r and the stored
\* sensitivity m, halved exactly in the modes 0x11 and 0x21.
C5_LuxValue ==
    (/\ Live
     /\ call.name = "lux"
     /\ expected_mode \in DefinedModes
     /\ call.args.budget >= 2)
    => LET r == 256 * call.args.data[1] + call.args.data[2]
           m == call.pre.mtreg
           k == IF expected_mode \in {17, 33} THEN 2 ELSE 1
       IN  /\ call.exc = NoExc
           /\ Len(call.ret) = 2
           \* ret[1] / ret[2] = (r / 1.2) * (69 / m) / k = 690 r / (12 m k)
           /\ call.ret[1] * 12 * m * k = call.ret[2] * 690 * r
           /\ (r = 54612 /\ m = 69 /\ expected_mode = 16
                  => call.ret[1] = 45510 * call.ret[2])
           /\ (r = 54612 /\ m = 69 /\ expected_mode = 17
                  => call.ret[1] = 22755 * call.ret[2])
           /\ (r = 54612 /\ m = 138 /\ expected_mode = 16
                  => call.ret[1] = 22755 * call.ret[2])

\* C6: construction without an address, when the scan succeeds and reports
\* neither 0x23 nor 0x5C, fails with the device-not-found error before any
\* command byte is written.
C6_DeviceNotFound ==
    (/\ call.name = "init"
     /\ call.args.addr = <<>>
     /\ call.args.budget >= 1
     /\ call.args.scanned \cap {35, 92} = {})
    => /\ call.exc = ErrNotFound
       /\ pc = "failed"
       /\ WriteAttempts(log) = <<>>
       /\ log = <<ScanEv(TRUE)>>

\* C6 witness: only another device answers the scan of a working bus.
C6_Witness ==
    /\ call.name = "init"
    /\ call.args.addr = <<>>
    /\ call.args.scanned = {64}
    /\ call.args.budget >= 6
    /\ call.exc = ErrNotFound
    /\ log = <<ScanEv(TRUE)>>

\* C7: a set_mode call whose transmission fails ends with the write error and
\* leaves the stored mode as it was.
C7_SetModeFailure ==
    (/\ Live
     /\ call.name = "set_mode"
     /\ call.args.mode \in DefinedModes
     /\ call.args.force
     /\ call.args.budget = 0)
    => /\ call.exc = ErrWrite
       /\ HasAttr(self, "mode") <=> HasAttr(call.pre, "mode")
       /\ HasAttr(self, "mode") => self.mode = call.pre.mode

\* C8: a set_mtreg call whose first or second transmission fails ends with
\* the write error and leaves the stored sensitivity as it was.
C8_SetSensitivityCommit ==
    (/\ Live
     /\ call.name = "set_mtreg"
     /\ call.args.budget < 2)
    => /\ call.exc = ErrWrite
       /\ self.mtreg = call.pre.mtreg

\* C9: from the moment __init__ has stored it, through every later call with
\* any argument and any bus failure, the sensitivity is an integer in 31..254.
C9_MtregInRange ==
    /\ Live => HasAttr(self, "mtreg")
    /\ HasAttr(self, "mtreg") => self.mtreg \in 31..254

\* C9 witness: 300 was asked for on a bus that is down; 254 is stored.
C9_Witness ==
    /\ Live
    /\ call.name = "set_mtreg"
    /\ call.args.mtreg = 300
    /\ call.args.budget = 0
    /\ call.exc = ErrWrite
    /\ self.mtreg = 254

\* C10: after construction the stored mode is always one of the six modes.
C10_ModeDefined ==
    Live => HasAttr(self, "mode") /\ self.mode \in DefinedModes

\* C11 (as claimed): autodetection selects an address only when exactly one
\* of 0x23 and 0x5C answers the scan; when both answer, construction fails
\* with the device-not-found error and no address is selected.
C11_ExactlyOneCandidate ==
    (/\ call.name = "init"
     /\ call.args.addr = <<>>
     /\ call.args.budget >= 1
     /\ {35, 92} \subseteq call.args.scanned)
    => /\ call.exc = ErrNotFound
       /\ ~HasAttr(self, "addr")

\* C11 (amended): autodetection selects 0x23 whenever the scan reports it,
\* also together with 0x5C; it selects 0x5C when the scan reports it without
\* 0x23; it fails with the device-not-found error, selecting nothing, exactly
\* when the scan reports neither.
C11_LowAddressPreferred ==
    (/\ call.name = "init"
     /\ call.args.addr = <<>>
     /\ call.args.budget >= 1)
    => LET found == call.args.scanned \cap {35, 92}
       IN  /\ (35 \in found) => (HasAttr(self, "addr") /\ self.addr = 35)
           /\ (found = {92}) => (HasAttr(self, "addr") /\ self.addr = 92)
           /\ (found = {}) <=> (call.exc = ErrNotFound)
           /\ (found = {}) <=> ~HasAttr(self, "addr")
           /\ (found # {} /\ call.args.budget >= 2)
                  => log[2] = WriteEv(self.addr, 1, TRUE)

\* C11 witness: both candidates answer the scan; 0x23 is selected and the
\* power-on byte is written to it.
C11_Witness ==
    /\ call.name = "init"
    /\ call.args.addr = <<>>
    /\ call.args.scanned = {35, 92}
    /\ call.args.budget >= 6
    /\ self.addr = 35
    /\ call.exc # ErrNotFound
    /\ log[2] = WriteEv(35, 1, TRUE)

\* C12: power_down transmits exactly the byte 0x00 and does not wait;
\* power_down, power_on and reset leave the stored mode, the stored
\* sensitivity and the address as they were, whether the bus works or not.
C12_PowerCommandsFrame ==
    /\ (Live /\ call.name = "power_down" /\ call.args.budget >= 1)
           => (log = <<WriteEv(self.addr, 0, TRUE)>> /\ call.exc = NoExc)
    /\ (Live /\ call.name \in {"power_down", "power_on", "reset"})
           => /\ self = call.pre
              /\ \A i \in 1..Len(log) : log[i].op = "sleep" => call.name # "power_down"

\* C12 witness: a power_down on a working bus, with sensitivity 120 stored.
C12_Witness ==
    /\ Live
    /\ call.name = "power_down"
    /\ call.exc = NoExc
    /\ log = <<WriteEv(self.addr, 0, TRUE)>>
    /\ self.mtreg = 120
    /\ self = call.pre

\* C13: raw issues one 2-byte read to the device address and returns
\* b0 * 256 + b1 for the bytes (b0, b1) received, a value in 0..65535.
C13_RawBigEndian ==
    (Live /\ call.name = "raw" /\ call.args.budget >= 1)
    => /\ log = <<ReadEv(self.addr, TRUE)>>
       /\ log[1].val = 2
       /\ call.exc = NoExc
       /\ call.ret = <<256 * call.args.data[1] + call.args.data[2]>>
       /\ call.ret[1] \in 0..65535

\* C13 witness: the bytes 0xD5, 0x54 are received and 54612 is returned.
C13_Witness ==
    /\ Live
    /\ call.name = "raw"
    /\ call.args.data = <<213, 84>>
    /\ call.ret = <<54612>>
    /\ log = <<ReadEv(self.addr, TRUE)>>

\* C14: when set_mode(m), m not the stored mode, failed on a bus that was
\* down, the same call repeated without force on a working bus transmits the
\* byte m and stores m.
C14_RetryTransmits ==
    [][(/\ Live
        /\ call.name = "set_mode"
        /\ call.args.mode \in DefinedModes
        /\ call.args.mode # expected_mode
        /\ call.args.budget = 0
        /\ call'.name = "set_mode"
        /\ call'.args.mode = call.args.mode
        /\ ~call'.args.force
        /\ call'.args.budget >= 1)
       => (/\ TxBytes(log') = <<call.args.mode>>
           /\ HasAttr(self', "mode")
           /\ self'.mode = call.args.mode)]_vars

\* C15: a bus operation that fails is the last thing its call does and ends
\* the call with the transport error: nothing is retried or attempted after
\* it.  When the high-byte write of set_mtreg fails, the low byte is not
\* written; when a write of lux fails, no read follows.
C15_NoContinuation ==
    /\ \A i \in 1..Len(log) : ~log[i].ok => i = Len(log)
    /\ (log # <<>> /\ ~log[Len(log)].ok) => call.exc \in {ErrScan, ErrWrite, ErrRead}
    /\ (Live /\ call.name = "set_mtreg" /\ call.args.budget = 0)
           => log = <<WriteEv(self.addr, ExpectedHigh(ExpectedMtreg(call.args.mtreg)), FALSE)>>
    /\ (Live /\ call.name = "lux")
           => \A i, j \in 1..Len(log) :
                  (log[i].op = "write" /\ ~log[i].ok) => log[j].op # "read"

\* C15 witness: the high-byte write of set_mtreg(120) failed, and it is the
\* only bus operation of the call.
C15_Witness ==
    /\ Live
    /\ call.name = "set_mtreg"
    /\ call.args.mtreg = 120
    /\ call.exc = ErrWrite
    /\ log = <<WriteEv(self.addr, 67, FALSE)>>

\* C16: lux waits floor(base_ms * mtreg / 69) ms before it reads, base_ms
\* being 180 in the four high-resolution modes and 24 in the two
\* low-resolution modes.
C16_WaitTime ==
    (/\ Live
     /\ call.name = "lux"
     /\ expected_mode \in DefinedModes
     /\ call.args.budget >= 2)
    => LET base == IF expected_mode \in {16, 17, 32, 33} THEN 180 ELSE 24
           slept == SelectSeq(log, LAMBDA e : e.op = "sleep")
       IN  /\ Len(slept) = 1
           /\ slept[1].val = (base * call.pre.mtreg) \div 69
           /\ (call.pre.mtreg = 69 /\ expected_mode = 16) => slept[1].val = 180
           /\ (call.pre.mtreg = 138 /\ expected_mode = 16) => slept[1].val = 360

\* C17: in a continuous mode lux transmits nothing, it waits and reads; lux
\* and raw leave the stored mode and the stored sensitivity as they were.
C17_ContinuousReadOnly ==
    /\ (Live /\ call.name \in {"lux", "raw"}) => self = call.pre
    /\ (Live /\ call.name = "lux" /\ expected_mode \in {16, 17, 19}
             /\ call.args.budget >= 1)
           => /\ WriteAttempts(log) = <<>>
              /\ Len(log) = 2
              /\ log[1].op = "sleep"
              /\ log[2] = ReadEv(self.addr, TRUE)

\* C18: the address stored by __init__ (the explicit one, without a scan, or
\* the autodetected one) is changed by no later call, and every write and
\* every read of every call, __init__ included, goes to it.
C18_AddressFixed ==
    /\ (Live /\ call.name # "init")
           => (HasAttr(self, "addr") /\ self.addr = call.pre.addr)
    /\ \A i \in 1..Len(log) :
           log[i].op \in {"write", "read"}
               => (HasAttr(self, "addr") /\ log[i].addr = self.addr)
    /\ (call.name = "init" /\ call.args.addr # <<>>)
           => /\ self.addr = call.args.addr[1]
              /\ \A i \in 1..Len(log) : log[i].op # "scan"
    /\ (call.name = "init" /\ call.args.addr = <<>>)
           => (log # <<>> /\ log[1].op = "scan")

\* C18 witness: an instance at the address 0x5C, given or found, writes the
\* two sensitivity bytes to 0x5C in a later call.
C18_Witness ==
    /\ Live
    /\ call.name = "set_mtreg"
    /\ call.pre.addr = 92
    /\ self.addr = 92
    /\ Len(log) = 2
    /\ log[1].addr = 92 /\ log[1].ok
    /\ log[2].addr = 92 /\ log[2].ok

====
